---- MODULE Spec2Model ----
(***************************************************************************)
(* SSCore nearby-star catalog importers (SSImportGJ.cpp) together with the *)
(* object map of SSObject.cpp and the string helpers of SSUtilities.cpp.   *)
(*                                                                         *)
(* Strings are sequences of one-character strings.  Catalog lines are real *)
(* fixed-width lines, sliced at the byte offsets the importers use.        *)
(* Objects live in a heap (a sequence of star records, the address being   *)
(* the index); collections (SSObjectVec) are sequences of addresses.       *)
(* Floating-point quantities are kept as terms: <<"inf">> is INFINITY,     *)
(* <<"ly", p>> the distance 1000*kLYPerParsec/p, and so on.                *)
(***************************************************************************)
EXTENDS Integers, Sequences, FiniteSets, TLC

VARIABLES
    heap,        \* every SSStar allocated so far (new SSStar / SSNewObject)
    stars,       \* the output collection (SSObjectVec &stars): addresses
    gjACStars,   \* the reference collection of SSImportGJCNS3: star records or NULL
    hipStars,    \* the reference collection of SSImportGJAC: star records or NULL
    pc,          \* position of the running import call
    callee,      \* which importer is running ("CNS3", "GJAC", "none")
    numStars,    \* the local counter numStars of the running call
    nread,       \* lines read so far by the running call
    map,         \* the local SSObjectMap of the running call
    idx,         \* the loop index i of the fusion loop of SSImportGJCNS3
    ret,         \* value returned by the last call that returned
    ncalls,      \* import calls made so far
    entryStars,  \* the output collection when the last call was entered
    entryHeap,   \* the heap when the last call was entered
    last,        \* what the last step did (line verdict, lookup result, names)
    angle,       \* the groups of the string last handed to strtodeg
    degrees      \* what strtodeg returned for it, in arcseconds

\* the variables of the import calls
importVars == <<heap, stars, gjACStars, hipStars, pc, callee, numStars, nread, map,
                idx, ret, ncalls, entryStars, entryHeap, last>>

\* the variables of the conversion runs
convVars == <<angle, degrees>>

vars == <<importVars, convVars>>

(***************************************************************************)
(* Bounds of the model.                                                    *)
(***************************************************************************)
MaxLines == 2      \* lines read, over all calls
MaxCalls == 2      \* import calls
MaxRef == 2        \* records per reference collection
MaxGroups == 3     \* blank-separated groups of an angle string

(***************************************************************************)
(* Strings.                                                                *)
(***************************************************************************)
\* std::string::npos, with size_t arithmetic kept modulo npos + 1
npos == 65535

Wrap(n) == n % (npos + 1)

Min(a, b) == IF a < b THEN a ELSE b

Blank == " "

IsDigit(c) == c \in {"0", "1", "2", "3", "4", "5", "6", "7", "8", "9"}

DigitVal(c) ==
    CASE c = "0" -> 0 [] c = "1" -> 1 [] c = "2" -> 2 [] c = "3" -> 3
      [] c = "4" -> 4 [] c = "5" -> 5 [] c = "6" -> 6 [] c = "7" -> 7
      [] c = "8" -> 8 [] c = "9" -> 9 [] OTHER -> 0

\* str.substr ( pos, n ) for pos <= str.length(); n may be npos
substr(str, pos, n) == SubSeq(str, pos + 1, Min(Len(str), pos + n))

\* str.substr ( pos, n ) throws std::out_of_range
substrThrows(str, pos) == pos > Len(str)

\* str.find_first_of ( set ), npos when there is none
find_first_of(str, set) ==
    LET hits == {i \in 1..Len(str) : str[i] \in set}
    IN  IF hits = {} THEN npos
        ELSE (CHOOSE i \in hits : \A j \in hits : i <= j) - 1

\* str.find ( pat ) == 0
StartsWith(str, pat) ==
    Len(str) >= Len(pat) /\ SubSeq(str, 1, Len(pat)) = pat

trim(str) ==
    LET keep == {i \in 1..Len(str) : str[i] # Blank}
    IN  IF keep = {} THEN <<>>
        ELSE LET start == CHOOSE i \in keep : \A j \in keep : i <= j
                 end == CHOOSE i \in keep : \A j \in keep : j <= i
             IN  SubSeq(str, start, end)

\* str.erase ( pos, npos ) for pos <= str.length()
erase(str, pos) == SubSeq(str, 1, pos)

(***************************************************************************)
(* Numeric conversions (SSUtilities.cpp).  Numerals of the model are       *)
(* integers: optional blanks, an optional sign, decimal digits.            *)
(***************************************************************************)
\* first position at or after i that holds no digit
RECURSIVE DigitEnd(_, _)
DigitEnd(str, i) ==
    IF i <= Len(str) /\ IsDigit(str[i]) THEN DigitEnd(str, i + 1) ELSE i

\* value of the digits str[i..j-1]
RECURSIVE DigitsVal(_, _, _)
DigitsVal(str, i, j) ==
    IF j <= i THEN 0 ELSE DigitsVal(str, i, j - 1) * 10 + DigitVal(str[j - 1])

\* first position at or after i that holds no blank
RECURSIVE SkipBlanks(_, _)
SkipBlanks(str, i) ==
    IF i <= Len(str) /\ str[i] = Blank THEN SkipBlanks(str, i + 1) ELSE i

\* One numeric conversion of the C library (atoi, strtof, strtod, scanf %lf)
\* starting at position i: leading blanks are skipped, a sign is accepted,
\* the longest run of digits is converted.  ok is FALSE when no digit is
\* found; next is the position after the numeral.
ScanDigits(str, i, minus, d, e) ==
    [ok |-> e > d,
     val |-> IF minus THEN 0 - DigitsVal(str, d, e) ELSE DigitsVal(str, d, e),
     next |-> IF e > d THEN e ELSE i]

ScanSigned(str, i, s, signed) ==
    ScanDigits(str, i, signed /\ str[s] = "-",
               IF signed THEN s + 1 ELSE s,
               DigitEnd(str, IF signed THEN s + 1 ELSE s))

ScanAt(str, i, s) == ScanSigned(str, i, s, s <= Len(str) /\ str[s] \in {"-", "+"})

ScanNum(str, i) == ScanAt(str, i, SkipBlanks(str, i))

NoNum == [ok |-> FALSE, val |-> 0, next |-> 1]

strtoint(str) == ScanNum(str, 1).val

strtofloat(str) == ScanNum(str, 1).val

strtofloat64(str) == ScanNum(str, 1).val

Abs(n) == IF n < 0 THEN 0 - n ELSE n

\* DegValue without fabs and without the test of the first character
DegValuePlain(str, deg, min, sec) == deg * 3600 + min * 60 + sec

\* the value strtodeg returns, in arcseconds, from what sscanf converted
DegValue(str, deg, min, sec) ==
    IF Len(str) > 0 /\ str[1] = "-"
    THEN 0 - (Abs(deg) * 3600 + min * 60 + sec)
    ELSE Abs(deg) * 3600 + min * 60 + sec

DegScan3(str, a, b, c) ==
    DegValue(str, IF a.ok THEN a.val ELSE 0, IF b.ok THEN b.val ELSE 0,
             IF c.ok THEN c.val ELSE 0)

DegScan2(str, a, b) ==
    DegScan3(str, a, b, IF b.ok THEN ScanNum(str, b.next) ELSE NoNum)

DegScan1(str, a) ==
    DegScan2(str, a, IF a.ok THEN ScanNum(str, a.next) ELSE NoNum)

\* strtodeg: sscanf ( cstr, "%lf %lf %lf", &deg, &min, &sec ), in arcseconds
\* (3600 times the value in degrees the code returns)
strtodeg(str) == DegScan1(str, ScanNum(str, 1))

(***************************************************************************)
(* Floating-point quantities, kept as terms <<tag, arguments>>.             *)
(***************************************************************************)
Term(tag, args) == <<tag, args>>

INFINITY == Term("inf", <<>>)

isinf(x) == x = INFINITY

(***************************************************************************)
(* Identifiers (SSIdentifier): a catalog tag and a numeric payload.        *)
(***************************************************************************)
NullIdent == [cat |-> "Unknown", id |-> 0]

\* SSIdentifier::operator bool
Valid(ident) == ident # NullIdent

\* SSIdentifier ( cat, id )
SSIdentifier(cat, id) == [cat |-> cat, id |-> id]

\* the catalog enumeration, in increasing order
CatOrder == <<"Unknown", "Bayer", "Flamsteed", "GCVS", "GJ", "HD", "BD", "HIP">>

CatRank(cat) == CHOOSE i \in 1..Len(CatOrder) : CatOrder[i] = cat

\* compareSSIdentifiers: the total order, by catalog and then by payload
compareSSIdentifiers(a, b) ==
    \/ CatRank(a.cat) < CatRank(b.cat)
    \/ a.cat = b.cat /\ a.id < b.id

\* component letter of a GJ designation
CompCode(c) ==
    CASE c = "A" -> 1 [] c = "B" -> 2 [] c = "C" -> 3 [] c = "D" -> 4
      [] OTHER -> 0

\* variable-star designations and constellations known to the model
GCVSDesigs == << <<"R">>, <<"M", "U">>, <<"N", "U">>, <<"V", "1">> >>

Constellations == << <<"O", "p", "h">>, <<"C", "e", "p">> >>

IndexIn(seq, x) ==
    IF \E i \in 1..Len(seq) : seq[i] = x
    THEN CHOOSE i \in 1..Len(seq) : seq[i] = x
    ELSE 0

\* a designation "<prefix> <number>[<letter>]", the numeral n converted
NumberedIdent(s, cat, n) ==
    IF ~ (n.ok /\ n.val > 0) THEN NullIdent
    ELSE IF cat = "GJ"
    THEN SSIdentifier("GJ", n.val * 10 +
            (IF SkipBlanks(s, n.next) <= Len(s)
             THEN CompCode(s[SkipBlanks(s, n.next)]) ELSE 0))
    ELSE SSIdentifier(cat, n.val)

\* a designation "<designation> <constellation>", sp the position of the blank
GCVSIdent(s, sp) ==
    IF sp = npos THEN NullIdent
    ELSE IF IndexIn(GCVSDesigs, SubSeq(s, 1, sp)) > 0
            /\ IndexIn(Constellations, trim(SubSeq(s, sp + 1, Len(s)))) > 0
    THEN SSIdentifier("GCVS", IndexIn(GCVSDesigs, SubSeq(s, 1, sp)) * 100
                              + IndexIn(Constellations, trim(SubSeq(s, sp + 1, Len(s)))))
    ELSE NullIdent

ParseIdent(s) ==
    IF StartsWith(s, <<"G", "J">>) THEN NumberedIdent(s, "GJ", ScanNum(s, 3))
    ELSE IF StartsWith(s, <<"H", "I", "P">>) THEN NumberedIdent(s, "HIP", ScanNum(s, 4))
    ELSE IF StartsWith(s, <<"B", "D">>) THEN NumberedIdent(s, "BD", ScanNum(s, 3))
    ELSE GCVSIdent(s, find_first_of(s, {Blank}))

\* SSIdentifier::fromString: "GJ <number>[<letter>]", "HIP <number>",
\* "BD <number>", "<designation> <constellation>"; anything else is invalid.
fromString(str) == ParseIdent(trim(str))

\* SSAddIdentifier: append ident unless it is invalid or already present
SSAddIdentifier(ident, idents) ==
    IF Valid(ident) /\ ~ \E i \in 1..Len(idents) : idents[i] = ident
    THEN Append(idents, ident)
    ELSE idents

\* insertion of x into a sequence sorted by compareSSIdentifiers
RECURSIVE InsertIdent(_, _)
InsertIdent(x, sorted) ==
    IF sorted = <<>> THEN <<x>>
    ELSE IF compareSSIdentifiers(x, Head(sorted)) THEN <<x>> \o sorted
    ELSE <<Head(sorted)>> \o InsertIdent(x, Tail(sorted))

\* sort ( idents.begin(), idents.end(), compareSSIdentifiers )
RECURSIVE SortIdents(_)
SortIdents(idents) ==
    IF idents = <<>> THEN <<>>
    ELSE InsertIdent(Head(idents), SortIdents(Tail(idents)))

IsSorted(idents) ==
    \A i \in 1..(Len(idents) - 1) : ~ compareSSIdentifiers(idents[i + 1], idents[i])

(***************************************************************************)
(* Stars (SSStar) and the null object.                                     *)
(***************************************************************************)
Spherical(lon, lat, rad) == [lon |-> lon, lat |-> lat, rad |-> rad]

\* SSNewObject ( kTypeStar ): every field unknown
NewStar ==
    [type |-> "SS", idents |-> <<>>, names |-> <<>>,
     coords |-> Spherical(INFINITY, INFINITY, INFINITY),
     motion |-> Spherical(INFINITY, INFINITY, INFINITY),
     vmag |-> INFINITY, bmag |-> INFINITY, spec |-> <<>>]

\* a null SSObjectPtr
NullObj == [NewStar EXCEPT !.type = "null"]

\* SSGetStarPtr ( ptr ) != nullptr
IsStar(obj) == obj.type = "SS"

\* SSStar::getIdentifier ( cat )
getIdentifier(star, cat) ==
    LET hits == {i \in 1..Len(star.idents) : star.idents[i].cat = cat}
    IN  IF hits = {} THEN NullIdent
        ELSE star.idents[CHOOSE i \in hits : \A j \in hits : i <= j]

\* SSStar::addIdentifier
addIdentifier(star, ident) ==
    [star EXCEPT !.idents = SSAddIdentifier(ident, star.idents)]

\* SSStar::sortIdentifiers
sortIdentifiers(star) == [star EXCEPT !.idents = SortIdents(star.idents)]

\* SSStar::setFundamentalMotion
setFundamentalMotion(star, coords, motion) ==
    [star EXCEPT !.coords = coords, !.motion = motion]

\* SSStar::getParallax, in milliarcseconds; 0 when the distance is unknown
getParallax(star) ==
    IF star.coords.rad[1] = "ly" THEN star.coords.rad[2][1] ELSE 0

\* SSStar::getRadVel
getRadVel(star) == star.motion.rad

\* 1000.0 * SSCoordinates::kLYPerParsec / plx, plx in milliarcseconds
LYFromParallax(plx) == IF plx = 0 THEN INFINITY ELSE Term("ly", <<plx>>)

\* SSUpdateStarCoordsAndMotion ( 1950.0, &precession, coords, motion ):
\* position and proper motion rotated together from B1950 to J2000
SSUpdateStarCoordsAndMotion(coords, motion) ==
    LET pos == coords.lon[2] \o coords.lat[2]
    IN  [coords |-> Spherical(Term("J2000lon", pos), Term("J2000lat", pos), coords.rad),
         motion |-> Spherical(
             IF isinf(motion.lon) THEN INFINITY
             ELSE Term("J2000pmlon", pos \o motion.lon[2]),
             IF isinf(motion.lat) THEN INFINITY
             ELSE Term("J2000pmlat", pos \o motion.lat[2]),
             motion.rad)]

(***************************************************************************)
(* The name table (SSIdentifierNameMap) and the name resolver.             *)
(***************************************************************************)
\* the name table handed to SSImportGJCNS3, in its iteration order
nameMap ==
    << [ident |-> SSIdentifier("GCVS", 101), name |-> "Barnard"],
       [ident |-> SSIdentifier("GJ", 11), name |-> "Alpha"],
       [ident |-> SSIdentifier("GJ", 11), name |-> "Rigil"],
       [ident |-> SSIdentifier("HD", 7), name |-> "Proxima"],
       [ident |-> SSIdentifier("HIP", 1), name |-> "Toliman"] >>

\* SSIdentifiersToNames: every name of the table whose identifier is in idents
SSIdentifiersToNames(idents, table) ==
    LET Hit(e) == \E i \in 1..Len(idents) : idents[i] = e.ident
        sel == SelectSeq(table, Hit)
    IN  [i \in 1..Len(sel) |-> sel[i].name]

(***************************************************************************)
(* The object map (SSObject.cpp).                                          *)
(***************************************************************************)
\* MapInsert with the later record replacing the earlier one (last-wins)
MapInsertOverwrite(m, ident, slot) ==
    IF ident \in DOMAIN m THEN [m EXCEPT ![ident] = slot] ELSE m @@ (ident :> slot)

\* map.insert ( { ident, slot } ): an existing key keeps its value
MapInsert(m, ident, slot) ==
    IF ident \in DOMAIN m THEN m ELSE m @@ (ident :> slot)

RECURSIVE MakeMapFrom(_, _, _, _)
MakeMapFrom(objects, cat, i, m) ==
    IF i > Len(objects) THEN m
    ELSE IF ~ IsStar(objects[i]) THEN MakeMapFrom(objects, cat, i + 1, m)
    ELSE LET ident == getIdentifier(objects[i], cat)
         IN  IF ~ Valid(ident) THEN MakeMapFrom(objects, cat, i + 1, m)
             ELSE MakeMapFrom(objects, cat, i + 1, MapInsert(m, ident, i))

EmptyMap == [x \in {} |-> 0]

\* SSMakeObjectMap ( objects, cat ): identifier -> 1-based slot
SSMakeObjectMap(objects, cat) == MakeMapFrom(objects, cat, 1, EmptyMap)

\* SSIdentifierToObject ( ident, map, objects ): map[ident] creates the key
\* with the value 0 when it is absent
SSIdentifierToObject(ident, m, objects) ==
    LET m2 == IF ident \in DOMAIN m THEN m ELSE m @@ (ident :> 0)
        k == m2[ident]
    IN  [map |-> m2, k |-> k, obj |-> IF k > 0 THEN objects[k] ELSE NullObj]

(***************************************************************************)
(* The component expander (SSImportGJ.cpp).  mem is the pair of the heap   *)
(* and the output collection.                                              *)
(***************************************************************************)
Mem(h, v) == [heap |-> h, stars |-> v]

GJPrefix == <<"G", "J", " ">>

\* addGJStar appending pStar itself instead of a copy of it
addGJStarAlias(pStar, strGJ, strC, mem) ==
    Mem([mem.heap EXCEPT ![pStar] =
            sortIdentifiers(addIdentifier(@, fromString(GJPrefix \o strGJ \o strC)))],
        Append(mem.stars, pStar))

\* addGJStar ( pStar, strGJ, strC, stars ), pStar an address
addGJStar(pStar, strGJ, strC, mem) ==
    LET pNewStar == mem.heap[pStar]
        identGJ == fromString(GJPrefix \o strGJ \o strC)
        new == sortIdentifiers(addIdentifier(pNewStar, identGJ))
    IN  Mem(Append(mem.heap, new), Append(mem.stars, Len(mem.heap) + 1))

\* AddEachComponent handing the whole components string to every addGJStar
RECURSIVE AddEachComponentWhole(_, _, _, _, _)
AddEachComponentWhole(pStar, strGJ, comps, k, mem) ==
    IF k > Len(comps) THEN mem
    ELSE AddEachComponentWhole(pStar, strGJ, comps, k + 1,
                               addGJStar(pStar, strGJ, comps, mem))

\* for ( char c : comps ) addGJStar ( pStar, strGJ, string ( 1, c ), stars )
RECURSIVE AddEachComponent(_, _, _, _, _)
AddEachComponent(pStar, strGJ, comps, k, mem) ==
    IF k > Len(comps) THEN mem
    ELSE AddEachComponent(pStar, strGJ, comps, k + 1,
                          addGJStar(pStar, strGJ, <<comps[k]>>, mem))

\* addGJComponentStars counting one per call, whatever it appends
addGJComponentStarsOne(pStar, strGJ, comps, mem) ==
    IF Len(comps) < 2
    THEN [mem |-> addGJStar(pStar, strGJ, comps, mem), n |-> 1]
    ELSE [mem |-> AddEachComponent(pStar, strGJ, comps, 1, mem), n |-> 1]

\* addGJComponentStars ( pStar, strGJ, comps, stars ): the memory after the
\* call and the count it returns
addGJComponentStars(pStar, strGJ, comps, mem) ==
    IF Len(comps) < 2
    THEN [mem |-> addGJStar(pStar, strGJ, comps, mem), n |-> 1]
    ELSE [mem |-> AddEachComponent(pStar, strGJ, comps, 1, mem), n |-> Len(comps)]

(***************************************************************************)
(* One pass of the line loop of SSImportGJCNS3: the verdict on the line,   *)
(* the memory after it, and what it adds to numStars.                      *)
(***************************************************************************)
\* the trimmed fields of a line of at least 119 characters
CNS3Fields(line) ==
    [gj |-> trim(substr(line, 2, 6)),
     comps |-> trim(substr(line, 8, 2)),
     hd |-> IF Len(line) < 153 THEN <<>> ELSE trim(substr(line, 146, 6)),
     dm |-> IF Len(line) < 165 THEN <<>> ELSE trim(substr(line, 153, 12)),
     ra |-> trim(substr(line, 12, 8)),
     dec |-> trim(substr(line, 21, 8)),
     pm |-> trim(substr(line, 30, 6)),
     pa |-> trim(substr(line, 37, 5)),
     rv |-> trim(substr(line, 43, 6)),
     spec |-> trim(substr(line, 54, 12)),
     vmag |-> trim(substr(line, 67, 6)),
     bmv |-> trim(substr(line, 76, 5)),
     plx |-> trim(substr(line, 108, 6)),
     name |-> IF Len(line) > 189 THEN trim(substr(line, 188, npos)) ELSE <<>>]

\* B1950 position and proper motion of the fields, ra and dec converted
CNS3Position(f, ra, dec) ==
    SSUpdateStarCoordsAndMotion(
        Spherical(Term("ra", <<ra>>), Term("dec", <<dec>>), Term("one", <<>>)),
        Spherical(IF f.pm # <<>> /\ f.pa # <<>>
                  THEN Term("pmra", <<strtofloat64(f.pm), strtofloat64(f.pa), dec>>)
                  ELSE INFINITY,
                  IF f.pm # <<>> /\ f.pa # <<>>
                  THEN Term("pmdec", <<strtofloat64(f.pm), strtofloat64(f.pa)>>)
                  ELSE INFINITY,
                  Term("zero", <<>>)))

\* J2000 position with the distance of the parallax plx, when plx > 1.0
CNS3Coords(upd, plx) ==
    IF plx > 1 THEN [upd.coords EXCEPT !.rad = LYFromParallax(plx)] ELSE upd.coords

\* J2000 motion with the radial velocity of the field
CNS3Motion(upd, strRV) ==
    [upd.motion EXCEPT !.rad = IF strRV = <<>> THEN INFINITY
                                ELSE Term("kms", <<strtofloat(strRV)>>)]

\* the variable-star designation of the name field
CNS3NameIdent(strName) ==
    fromString(IF StartsWith(strName, <<"M", "U">>) \/ StartsWith(strName, <<"N", "U">>)
               THEN <<>> ELSE strName)

CNS3AddGCVS(len, ident, idents) ==
    IF len > 189 /\ ident.cat = "GCVS" THEN SSAddIdentifier(ident, idents) ELSE idents

CNS3AddDM(strDM, idents) ==
    IF strDM # <<>> THEN SSAddIdentifier(fromString(strDM), idents) ELSE idents

CNS3AddHD(strHD, idents) ==
    IF strHD # <<>> THEN SSAddIdentifier(SSIdentifier("HD", strtoint(strHD)), idents)
    ELSE idents

\* the identifier vector of the line: HD, DM, variable-star designation
CNS3Idents(len, f) ==
    CNS3AddGCVS(len, CNS3NameIdent(f.name), CNS3AddDM(f.dm, CNS3AddHD(f.hd, <<>>)))

CNS3Mags(star, vmag, strBmV) ==
    [star EXCEPT !.vmag = vmag,
                 !.bmag = IF strBmV = <<>> \/ isinf(vmag) THEN INFINITY
                          ELSE Term("mag", <<strtofloat(strBmV) + vmag[2][1]>>)]

\* the provisional star of the line
CNS3Star(len, f, upd) ==
    CNS3Mags([setFundamentalMotion(NewStar, CNS3Coords(upd, strtofloat(f.plx)),
                                   CNS3Motion(upd, f.rv))
                 EXCEPT !.idents = CNS3Idents(len, f), !.spec = f.spec],
             IF f.vmag = <<>> THEN INFINITY ELSE Term("mag", <<strtofloat(f.vmag)>>),
             f.bmv)

\* the provisional star allocated, its components appended to stars
AddLine(pStar, strGJ, comps, mem, added) ==
    [verdict |-> "ok", mem |-> added.mem, n |-> added.n, gj |-> strGJ, comps |-> comps]

\* a line that is not imported
Skip(verdict, mem) ==
    [verdict |-> verdict, mem |-> mem, n |-> 0, gj |-> <<>>, comps |-> <<>>]

ExpandLine(pStar, strGJ, comps, mem) ==
    AddLine(pStar, strGJ, comps, mem,
            addGJComponentStars(Len(mem.heap) + 1, strGJ, comps,
                                Mem(Append(mem.heap, pStar), mem.stars)))

\* CNS3Accepted testing the right ascension only
CNS3AcceptedRAOnly(len, f, mem) ==
    IF f.ra = <<>>
    THEN Skip("blank", mem)
    ELSE ExpandLine(CNS3Star(len, f, CNS3Position(f, strtodeg(f.ra) * 15, strtodeg(f.dec))),
                    f.gj, f.comps, mem)

\* the line from the R.A./Dec. test on
CNS3Accepted(len, f, mem) ==
    IF f.ra = <<>> \/ f.dec = <<>>
    THEN Skip("blank", mem)
    ELSE ExpandLine(CNS3Star(len, f, CNS3Position(f, strtodeg(f.ra) * 15, strtodeg(f.dec))),
                    f.gj, f.comps, mem)

\* CNS3Line without the test of the length of the line
CNS3LineAnyLength(line, mem) == CNS3Accepted(Len(line), CNS3Fields(line), mem)

CNS3Line(line, mem) ==
    IF Len(line) < 119 THEN Skip("short", mem)
    ELSE CNS3Accepted(Len(line), CNS3Fields(line), mem)

(***************************************************************************)
(* One pass of the line loop of SSImportGJAC.  m is the object map of      *)
(* hipStars, which the lookup may extend.  The verdict "throw" is the      *)
(* std::out_of_range of a substr that starts past the end of its string.   *)
(***************************************************************************)
\* the trimmed fields of a line of at least 124 characters
GJACFields(line) ==
    [gj |-> trim(substr(line, 2, 20)),
     hip |-> trim(substr(line, 22, 13)),
     ra |-> trim(substr(line, 36, 11)),
     dec |-> trim(substr(line, 48, 11)),
     pmra |-> trim(substr(line, 61, 6)),
     pmdec |-> trim(substr(line, 69, 6))]

\* strGJ.substr ( pos1 - 1, pos2 == npos ? npos : pos2 - pos1 ) throws
CompsThrow(strGJ, pos1) == pos1 # npos /\ substrThrows(strGJ, Wrap(pos1 - 1))

\* the components string taken from the identifier field
GJACComps(strGJ, pos1, pos2) ==
    IF pos1 = npos THEN <<>>
    ELSE trim(substr(strGJ, Wrap(pos1 - 1),
                     IF pos2 = npos THEN npos ELSE Wrap(pos2 - pos1)))

\* the identifier field with its components erased
GJACBase(strGJ, pos1) == IF pos1 = npos THEN strGJ ELSE erase(strGJ, pos1)

\* the identifiers of the line: HIP, and what the Hipparcos star adds
GJACIdents(hipID, pHIPStar) ==
    IF IsStar(pHIPStar)
    THEN SSAddIdentifier(getIdentifier(pHIPStar, "GCVS"),
         SSAddIdentifier(getIdentifier(pHIPStar, "Flamsteed"),
         SSAddIdentifier(getIdentifier(pHIPStar, "Bayer"),
         IF Valid(hipID) THEN SSAddIdentifier(hipID, <<>>) ELSE <<>>)))
    ELSE IF Valid(hipID) THEN SSAddIdentifier(hipID, <<>>) ELSE <<>>

\* the provisional star of the line, ra and dec converted
GJACStar(f, ra, dec, hipID, pHIPStar) ==
    [setFundamentalMotion(NewStar,
        Spherical(Term("ra", <<ra>>), Term("dec", <<dec>>),
                  IF IsStar(pHIPStar) THEN LYFromParallax(getParallax(pHIPStar))
                  ELSE INFINITY),
        Spherical(IF f.pmra # <<>> THEN Term("pmra", <<strtofloat(f.pmra), dec>>)
                  ELSE INFINITY,
                  IF f.pmdec # <<>> THEN Term("pmdec", <<strtofloat(f.pmdec)>>)
                  ELSE INFINITY,
                  IF IsStar(pHIPStar) THEN getRadVel(pHIPStar) ELSE INFINITY))
     EXCEPT !.idents = GJACIdents(hipID, pHIPStar),
            !.vmag = IF IsStar(pHIPStar) THEN pHIPStar.vmag ELSE INFINITY,
            !.bmag = IF IsStar(pHIPStar) THEN pHIPStar.bmag ELSE INFINITY]

WithMap(r, m) ==
    [verdict |-> r.verdict, mem |-> r.mem, n |-> r.n, gj |-> r.gj, comps |-> r.comps,
     map |-> m]

GJACMatched(f, strGJ, comps, hipID, found, mem) ==
    WithMap(ExpandLine(GJACStar(f, strtodeg(f.ra) * 15, strtodeg(f.dec), hipID, found.obj),
                       strGJ, comps, mem),
            found.map)

GJACAccepted(f, pos1, pos2, hipID, mem, m, hip) ==
    IF CompsThrow(f.gj, pos1)
    THEN WithMap(Skip("throw", mem), m)
    ELSE IF f.ra = <<>> \/ f.dec = <<>>
    THEN WithMap(Skip("blank", mem), m)
    ELSE GJACMatched(f, GJACBase(f.gj, pos1), GJACComps(f.gj, pos1, pos2), hipID,
                     SSIdentifierToObject(hipID, m, hip), mem)

GJACParsed(f, mem, m, hip) ==
    GJACAccepted(f, find_first_of(f.gj, {"A", "B", "C", "D"}),
                 find_first_of(f.gj, {"/"}), fromString(f.hip), mem, m, hip)

GJACLine(line, mem, m, hip) ==
    IF Len(line) < 124 THEN WithMap(Skip("short", mem), m)
    ELSE GJACParsed(GJACFields(line), mem, m, hip)

(***************************************************************************)
(* The cross-match step of SSImportGJCNS3 for one entry of stars.          *)
(***************************************************************************)
\* MergeCoordsRad without the isinf test: the reference always overwrites
MergeCoordsRadAlways(rad, accRad) == accRad

\* coords.rad = isinf ( accCoords.rad ) ? coords.rad : accCoords.rad
MergeCoordsRad(rad, accRad) == IF isinf(accRad) THEN rad ELSE accRad

\* motion.rad = isinf ( accMotion.rad ) ? motion.rad : accMotion.rad
MergeMotionRad(rad, accRad) == IF isinf(accRad) THEN rad ELSE accRad

\* the identifiers of pStar with those of pACStar added, in the order added
UnionIdents(pStar, pACStar) ==
    SSAddIdentifier(getIdentifier(pACStar, "GCVS"),
    SSAddIdentifier(getIdentifier(pACStar, "Flamsteed"),
    SSAddIdentifier(getIdentifier(pACStar, "Bayer"),
    SSAddIdentifier(getIdentifier(pACStar, "HIP"), pStar.idents))))

\* MergeIdents without the sort
MergeIdentsUnsorted(pStar, pACStar) == UnionIdents(pStar, pACStar)

\* the identifiers of a matched entry: the union, sorted
MergeIdents(pStar, pACStar) == SortIdents(UnionIdents(pStar, pACStar))

\* the identifier vector idents handed to SSIdentifiersToNames
NameIdents(pStar, pACStar) ==
    IF IsStar(pACStar) THEN MergeIdents(pStar, pACStar) ELSE <<>>

\* the body of the if ( pACStar != nullptr )
Merge(pStar, pACStar) ==
    LET coords == Spherical(pACStar.coords.lon, pACStar.coords.lat,
                            MergeCoordsRad(pStar.coords.rad, pACStar.coords.rad))
        motion == Spherical(pACStar.motion.lon, pACStar.motion.lat,
                            MergeMotionRad(pStar.motion.rad, pACStar.motion.rad))
    IN  setFundamentalMotion([pStar EXCEPT !.idents = MergeIdents(pStar, pACStar)],
                             coords, motion)

\* one pass of the loop over stars: the entry afterwards, the names found
FuseEntry(pStar, pACStar, table) ==
    LET merged == IF IsStar(pACStar) THEN Merge(pStar, pACStar) ELSE pStar
        names == SSIdentifiersToNames(NameIdents(pStar, pACStar), table)
    IN  [star |-> IF Len(names) > 0 THEN [merged EXCEPT !.names = names] ELSE merged,
         names |-> names]

(***************************************************************************)
(* What the last step did.                                                 *)
(***************************************************************************)
\* op: the step; verdict: its outcome; line, gj, comps, n: the line read, the
\* base number and components string handed to addGJComponentStars and the
\* count it returned; len0, num0: stars.size() and numStars before the step;
\* i, k, before, names, view0: the entry of the fusion pass, the slot its
\* lookup found, the entry before the pass, the names found, and every entry
\* of stars before the pass.
NoLast ==
    [op |-> "none", verdict |-> "none", line |-> <<>>, gj |-> <<>>, comps |-> <<>>,
     n |-> 0, len0 |-> 0, num0 |-> 0, i |-> 0, k |-> 0, before |-> NullObj,
     names |-> <<>>, view0 |-> <<>>]

Step(op, verdict) == [NoLast EXCEPT !.op = op, !.verdict = verdict]

LineStep(line, r, len0, num0) ==
    [NoLast EXCEPT !.op = "line", !.verdict = r.verdict, !.line = line, !.gj = r.gj,
                   !.comps = r.comps, !.n = r.n, !.len0 = len0, !.num0 = num0]

\* the entries of the collection v, in order
View(h, v) == [j \in 1..Len(v) |-> h[v[j]]]

(***************************************************************************)
(* Input files: fixed-width lines with the given fields at their columns.  *)
(***************************************************************************)
\* a line of len characters, blank except for the fields <<offset, text>>
Line(len, fields) ==
    [i \in 1..len |->
        LET hit == {f \in fields : f[1] < i /\ i <= f[1] + Len(f[2])}
        IN  IF hit = {} THEN Blank
            ELSE LET f == CHOOSE g \in hit : TRUE IN f[2][i - f[1]]]

\* a CNS3 line: identifier, components, R.A., Dec., radial velocity, V
\* magnitude, parallax, HD number and variable-star name
CNS3Text(len, gj, comps, ra, dec, rv, vmag, plx, hd, name) ==
    Line(len, {<<2, gj>>, <<8, comps>>, <<12, ra>>, <<21, dec>>, <<43, rv>>,
               <<67, vmag>>, <<108, plx>>, <<146, hd>>, <<188, name>>})

\* a line of the accurate-coordinates file: identifier, HIP number, R.A., Dec.
GJACText(len, gj, hip, ra, dec) ==
    Line(len, {<<2, gj>>, <<22, hip>>, <<36, ra>>, <<48, dec>>})

ROph == <<"R", " ", "O", "p", "h">>

MUOph == <<"M", "U", " ", "O", "p", "h">>

HIP1 == <<"H", "I", "P", " ", "1">>

\* the CNS3 lines of the import runs
LinesCNS3 ==
    { CNS3Text(118, <<"1">>, <<>>, <<"1">>, <<"2">>, <<>>, <<>>, <<>>, <<>>, <<>>),
      CNS3Text(119, <<"1">>, <<>>, <<"1">>, <<"2">>, <<>>, <<>>, <<>>, <<>>, <<>>),
      CNS3Text(119, <<"1">>, <<"A">>, <<"1">>, <<"-", "2">>, <<"5">>, <<"3">>, <<"5", "0">>, <<>>, <<>>),
      CNS3Text(119, <<"2">>, <<"A", "B">>, <<"1">>, <<"2">>, <<>>, <<>>, <<>>, <<>>, <<>>),
      CNS3Text(119, <<"1">>, <<>>, <<>>, <<"2">>, <<>>, <<>>, <<>>, <<>>, <<>>),
      CNS3Text(119, <<"1">>, <<>>, <<"1">>, <<>>, <<>>, <<>>, <<>>, <<>>, <<>>),
      CNS3Text(119, <<>>, <<>>, <<"1">>, <<"2">>, <<>>, <<>>, <<>>, <<>>, <<>>),
      CNS3Text(194, <<"3">>, <<>>, <<"1">>, <<"2">>, <<>>, <<>>, <<>>, <<"7">>, ROph),
      CNS3Text(194, <<"3">>, <<>>, <<"1">>, <<"2">>, <<>>, <<>>, <<>>, <<>>, MUOph) }

\* the lines of the accurate-coordinates file of the import runs
LinesGJAC ==
    { GJACText(123, <<"1">>, <<>>, <<"1">>, <<"2">>),
      GJACText(124, <<"1">>, <<>>, <<"1">>, <<"2">>),
      GJACText(124, <<"1", " ", "A", "B">>, HIP1, <<"1">>, <<"2">>),
      GJACText(124, <<"3", " ", "A", "/", "4", " ", "B">>, <<>>, <<"1">>, <<"2">>),
      GJACText(124, <<"A", "1">>, <<>>, <<"1">>, <<"2">>),
      GJACText(124, <<"A", "1">>, <<>>, <<>>, <<"2">>),
      GJACText(124, <<"1">>, <<>>, <<>>, <<"2">>),
      GJACText(124, <<>>, <<>>, <<"1">>, <<"2">>) }

\* the lines of the accurate-coordinates file of the fusion runs
LinesFuseAC ==
    { GJACText(124, <<"1", " ", "A">>, <<>>, <<"1">>, <<"2">>) }

\* the CNS3 lines of the fusion runs
LinesFuse ==
    { CNS3Text(194, <<"1">>, <<"A">>, <<"1">>, <<"2">>, <<"5">>, <<"3">>, <<"5", "0">>, <<"7">>, ROph),
      CNS3Text(119, <<"1">>, <<"A", "B">>, <<"1">>, <<"2">>, <<>>, <<>>, <<>>, <<>>, <<>>) }

(***************************************************************************)
(* Reference collections.                                                  *)
(***************************************************************************)
\* a star as SSImportGJAC or the Hipparcos importer leaves it
RefStar(idents, lon, rad, radvel) ==
    [NewStar EXCEPT
        !.idents = idents,
        !.coords = Spherical(Term("ra", <<lon>>), Term("dec", <<lon>>), rad),
        !.motion = Spherical(Term("pmra", <<lon>>), Term("pmdec", <<lon>>), radvel)]

\* the records a reference collection of the fusion runs is drawn from
RefStars ==
    { RefStar(<<SSIdentifier("GCVS", 202), SSIdentifier("GJ", 11), SSIdentifier("HIP", 1)>>,
              10, Term("ly", <<20>>), Term("kms", <<9>>)),
      RefStar(<<SSIdentifier("GJ", 11)>>, 20, INFINITY, INFINITY),
      RefStar(<<SSIdentifier("Bayer", 3), SSIdentifier("GJ", 12)>>,
              30, Term("ly", <<40>>), INFINITY),
      NullObj }

\* every sequence over S of length at most n
RECURSIVE SeqsUpTo(_, _)
SeqsUpTo(S, n) ==
    IF n = 0 THEN {<<>>}
    ELSE LET shorter == SeqsUpTo(S, n - 1)
         IN  shorter \cup {Append(q, x) : q \in shorter, x \in S}

\* the Hipparcos collection of the import runs
HipStars ==
    << RefStar(<<SSIdentifier("Bayer", 3), SSIdentifier("HIP", 1)>>,
               50, Term("ly", <<30>>), Term("kms", <<4>>)) >>

\* the reference collections of the import runs
RefsImport ==
    { <<>>,
      << RefStar(<<SSIdentifier("HIP", 2)>>, 40, INFINITY, Term("kms", <<8>>)),
         RefStar(<<SSIdentifier("GJ", 11), SSIdentifier("HIP", 1)>>,
                 10, Term("ly", <<20>>), Term("kms", <<9>>)) >> }

(***************************************************************************)
(* The import calls, step by step.                                         *)
(***************************************************************************)
InitWith(refs, hips) ==
    /\ heap = <<>>
    /\ stars = <<>>
    /\ gjACStars \in refs
    /\ hipStars \in hips
    /\ pc = "idle"
    /\ callee = "none"
    /\ numStars = 0
    /\ nread = 0
    /\ map = EmptyMap
    /\ idx = 0
    /\ ret = 0
    /\ ncalls = 0
    /\ entryStars = <<>>
    /\ entryHeap = <<>>
    /\ last = NoLast
    /\ angle = <<>>
    /\ degrees = 0

\* OpenFail returning -1 instead of 0
OpenFailMinusOne(who) ==
    /\ pc = "idle" /\ ncalls < MaxCalls
    /\ ncalls' = ncalls + 1
    /\ entryStars' = stars /\ entryHeap' = heap
    /\ ret' = 0 - 1
    /\ last' = Step("openfail", who)
    /\ UNCHANGED <<heap, stars, gjACStars, hipStars, pc, callee, numStars, nread,
                   map, idx>>
    /\ UNCHANGED convVars

\* SSImportGJCNS3 or SSImportGJAC on a file that cannot be opened
OpenFail(who) ==
    /\ pc = "idle" /\ ncalls < MaxCalls
    /\ ncalls' = ncalls + 1
    /\ entryStars' = stars /\ entryHeap' = heap
    /\ ret' = 0
    /\ last' = Step("openfail", who)
    /\ UNCHANGED <<heap, stars, gjACStars, hipStars, pc, callee, numStars, nread,
                   map, idx>>
    /\ UNCHANGED convVars

\* SSImportGJCNS3 entered, the file open
OpenCNS3 ==
    /\ pc = "idle" /\ ncalls < MaxCalls
    /\ ncalls' = ncalls + 1
    /\ entryStars' = stars /\ entryHeap' = heap
    /\ pc' = "read" /\ callee' = "CNS3"
    /\ numStars' = 0
    /\ map' = EmptyMap
    /\ last' = Step("open", "CNS3")
    /\ UNCHANGED <<heap, stars, gjACStars, hipStars, nread, idx, ret>>
    /\ UNCHANGED convVars

\* SSImportGJAC entered, the file open: the map of hipStars is built
OpenGJAC ==
    /\ pc = "idle" /\ ncalls < MaxCalls
    /\ ncalls' = ncalls + 1
    /\ entryStars' = stars /\ entryHeap' = heap
    /\ pc' = "read" /\ callee' = "GJAC"
    /\ numStars' = 0
    /\ map' = SSMakeObjectMap(hipStars, "HIP")
    /\ last' = Step("open", "GJAC")
    /\ UNCHANGED <<heap, stars, gjACStars, hipStars, nread, idx, ret>>
    /\ UNCHANGED convVars

\* one line of the CNS3 file, drawn from lines
ReadLineCNS3(lines) ==
    /\ pc = "read" /\ callee = "CNS3" /\ nread < MaxLines
    /\ \E line \in lines :
          LET r == CNS3Line(line, Mem(heap, stars))
          IN  /\ heap' = r.mem.heap
              /\ stars' = r.mem.stars
              /\ numStars' = numStars + r.n
              /\ last' = LineStep(line, r, Len(stars), numStars)
    /\ nread' = nread + 1
    /\ UNCHANGED <<gjACStars, hipStars, pc, callee, map, idx, ret, ncalls,
                   entryStars, entryHeap>>
    /\ UNCHANGED convVars

\* one line of the accurate-coordinates file, drawn from lines
ReadLineGJAC(lines) ==
    /\ pc = "read" /\ callee = "GJAC" /\ nread < MaxLines
    /\ \E line \in lines :
          LET r == GJACLine(line, Mem(heap, stars), map, hipStars)
          IN  /\ heap' = r.mem.heap
              /\ stars' = r.mem.stars
              /\ numStars' = numStars + r.n
              /\ map' = r.map
              /\ pc' = IF r.verdict = "throw" THEN "aborted" ELSE pc
              /\ last' = LineStep(line, r, Len(stars), numStars)
    /\ nread' = nread + 1
    /\ UNCHANGED <<gjACStars, hipStars, callee, idx, ret, ncalls, entryStars,
                   entryHeap>>
    /\ UNCHANGED convVars

\* end of the accurate-coordinates file: SSImportGJAC returns numStars
ReturnGJAC ==
    /\ pc = "read" /\ callee = "GJAC"
    /\ pc' = "idle" /\ callee' = "none"
    /\ ret' = numStars
    /\ last' = Step("return", "GJAC")
    /\ UNCHANGED <<heap, stars, gjACStars, hipStars, numStars, nread, map, idx,
                   ncalls, entryStars, entryHeap>>
    /\ UNCHANGED convVars

\* end of the CNS3 file: the map of gjACStars is built, the loop over stars starts
EndOfFileCNS3 ==
    /\ pc = "read" /\ callee = "CNS3"
    /\ pc' = "fuse"
    /\ map' = SSMakeObjectMap(gjACStars, "GJ")
    /\ idx' = 1
    /\ last' = Step("map", "CNS3")
    /\ UNCHANGED <<heap, stars, gjACStars, hipStars, callee, numStars, nread, ret,
                   ncalls, entryStars, entryHeap>>
    /\ UNCHANGED convVars

\* one pass of the loop over stars: cross-match, merge, names
FuseStep ==
    /\ pc = "fuse" /\ idx <= Len(stars)
    /\ LET pStar == heap[stars[idx]]
           identGJ == getIdentifier(pStar, "GJ")
           found == SSIdentifierToObject(identGJ, map, gjACStars)
           r == FuseEntry(pStar, found.obj, nameMap)
       IN  /\ heap' = [heap EXCEPT ![stars[idx]] = r.star]
           /\ map' = found.map
           /\ last' = [NoLast EXCEPT
                          !.op = "fuse",
                          !.verdict = IF IsStar(found.obj) THEN "match" ELSE "nomatch",
                          !.i = idx, !.k = found.k, !.before = pStar,
                          !.names = r.names, !.view0 = View(heap, stars)]
    /\ idx' = idx + 1
    /\ UNCHANGED <<stars, gjACStars, hipStars, pc, callee, numStars, nread, ret,
                   ncalls, entryStars, entryHeap>>
    /\ UNCHANGED convVars

\* the loop over stars is over: SSImportGJCNS3 returns numStars
ReturnCNS3 ==
    /\ pc = "fuse" /\ idx > Len(stars)
    /\ pc' = "idle" /\ callee' = "none"
    /\ ret' = numStars
    /\ last' = Step("return", "CNS3")
    /\ UNCHANGED <<heap, stars, gjACStars, hipStars, numStars, nread, map, idx,
                   ncalls, entryStars, entryHeap>>
    /\ UNCHANGED convVars

(***************************************************************************)
(* Import runs: both importers append to stars, over every line of         *)
(* LinesCNS3 and LinesGJAC.                                                *)
(***************************************************************************)
Init == InitWith(RefsImport, {HipStars})

Next ==
    \/ OpenFail("CNS3")
    \/ OpenFail("GJAC")
    \/ OpenCNS3
    \/ OpenGJAC
    \/ ReadLineCNS3(LinesCNS3)
    \/ ReadLineGJAC(LinesGJAC)
    \/ ReturnGJAC
    \/ EndOfFileCNS3
    \/ FuseStep
    \/ ReturnCNS3

Spec == Init /\ [][Next]_vars

(***************************************************************************)
(* Fusion runs: SSImportGJCNS3 against every reference collection of at    *)
(* most MaxRef records of RefStars.                                        *)
(***************************************************************************)
InitFuse == InitWith(SeqsUpTo(RefStars, MaxRef), {<<>>})

NextFuse ==
    \/ OpenGJAC
    \/ ReadLineGJAC(LinesFuseAC)
    \/ ReturnGJAC
    \/ OpenCNS3
    \/ ReadLineCNS3(LinesFuse)
    \/ EndOfFileCNS3
    \/ FuseStep
    \/ ReturnCNS3

SpecFuse == InitFuse /\ [][NextFuse]_vars

(***************************************************************************)
(* Conversion runs: strtodeg on strings of at most MaxGroups groups        *)
(* separated by single blanks.                                             *)
(***************************************************************************)
\* the groups an angle string is made of: the text, whether sscanf converts
\* it, its value and whether it starts with '-'
Groups ==
    { [text |-> <<"0">>, num |-> TRUE, val |-> 0, minus |-> FALSE],
      [text |-> <<"-", "0">>, num |-> TRUE, val |-> 0, minus |-> TRUE],
      [text |-> <<"1", "0">>, num |-> TRUE, val |-> 10, minus |-> FALSE],
      [text |-> <<"-", "1", "0">>, num |-> TRUE, val |-> 0 - 10, minus |-> TRUE],
      [text |-> <<"3", "0">>, num |-> TRUE, val |-> 30, minus |-> FALSE],
      [text |-> <<"-", "3", "0">>, num |-> TRUE, val |-> 0 - 30, minus |-> TRUE],
      [text |-> <<"N">>, num |-> FALSE, val |-> 0, minus |-> FALSE] }

\* the string of the groups gs, a blank between two groups
RECURSIVE AngleText(_)
AngleText(gs) ==
    IF gs = <<>> THEN <<>>
    ELSE IF Len(gs) = 1 THEN gs[1].text
    ELSE gs[1].text \o <<Blank>> \o AngleText(Tail(gs))

\* strtodeg called on a string of one group more
Convert ==
    /\ Len(angle) < MaxGroups
    /\ \E g \in Groups :
          /\ angle' = Append(angle, g)
          /\ degrees' = strtodeg(AngleText(Append(angle, g)))
    /\ UNCHANGED importVars

InitDeg == InitWith({<<>>}, {<<>>})

NextDeg == Convert

SpecDeg == InitDeg /\ [][NextDeg]_vars

(***************************************************************************)
(* Properties.                                                             *)
(***************************************************************************)
\* the entry the last fusion pass worked on, as it is now
Fused == heap[stars[last.i]]

\* the identifier the last fusion pass looked up
LookupIdent == getIdentifier(last.before, "GJ")

\* the slots of gjACStars whose record carries ident under the tag GJ
GJHits(ident) ==
    {i \in 1..Len(gjACStars) :
        IsStar(gjACStars[i]) /\ getIdentifier(gjACStars[i], "GJ") = ident}

MinOf(S) == CHOOSE i \in S : \A j \in S : i <= j

MaxOf(S) == CHOOSE i \in S : \A j \in S : j <= i

\* C1 as claimed: when several records of the reference collection carry the
\* identifier looked up, the lookup after SSMakeObjectMap returns the last of
\* them.
C1_LastWins ==
    (last.op = "fuse" /\ Valid(LookupIdent) /\ Cardinality(GJHits(LookupIdent)) >= 2)
        => last.k = MaxOf(GJHits(LookupIdent))

\* C1 amended: when several records of the reference collection carry the
\* identifier looked up, the lookup after SSMakeObjectMap returns the first of
\* them (first-wins), and never a later one.
C1_FirstWins ==
    (last.op = "fuse" /\ Valid(LookupIdent) /\ Cardinality(GJHits(LookupIdent)) >= 2)
        => last.k = MinOf(GJHits(LookupIdent))

C1_Witness ==
    /\ last.op = "fuse" /\ Valid(LookupIdent)
    /\ Cardinality(GJHits(LookupIdent)) >= 2
    /\ last.k = MinOf(GJHits(LookupIdent))
    /\ gjACStars[MinOf(GJHits(LookupIdent))] # gjACStars[MaxOf(GJHits(LookupIdent))]

\* C2 as claimed: after a cross-match the entry's radial velocity is the one it
\* had before the merge, whatever the radial velocity of the reference.
C2_RadVelKept ==
    (last.op = "fuse" /\ last.verdict = "match")
        => Fused.motion.rad = last.before.motion.rad

\* C3: after a cross-match the entry's distance is the reference distance when
\* that is not infinite, and the distance it had before the merge otherwise.
C3_Distance ==
    (last.op = "fuse" /\ last.verdict = "match")
        => Fused.coords.rad =
              IF isinf(gjACStars[last.k].coords.rad) THEN last.before.coords.rad
              ELSE gjACStars[last.k].coords.rad

C3_Witness ==
    /\ last.op = "fuse" /\ last.verdict = "match"
    /\ isinf(gjACStars[last.k].coords.rad)
    /\ ~ isinf(last.before.coords.rad)
    /\ Fused.coords.rad = last.before.coords.rad

\* the component-expansion count of a components string
ExpansionCount(comps) == IF Len(comps) < 2 THEN 1 ELSE Len(comps)

\* C4: the value an import call returns is the number of entries the call
\* appended, and an accepted line adds the expansion count of its components
\* string both to the collection and to the count.
C4_Count ==
    /\ last.op = "return" => ret = Len(stars) - Len(entryStars)
    /\ (last.op = "line" /\ last.verdict = "ok")
          => /\ Len(stars) = last.len0 + ExpansionCount(last.comps)
             /\ numStars = last.num0 + ExpansionCount(last.comps)

C4_Witness ==
    /\ last.op = "return"
    /\ ret = Len(stars) - Len(entryStars)
    /\ ret >= 3

\* the minimum usable length of a line of the running importer
MinLength == IF callee = "CNS3" THEN 119 ELSE 124

\* C5: a line shorter than 119 characters (SSImportGJCNS3) or 124 characters
\* (SSImportGJAC) appends nothing, leaves the count alone, and the import goes
\* on reading.
C5_ShortSkipped ==
    (last.op = "line" /\ Len(last.line) < MinLength)
        => /\ Len(stars) = last.len0
           /\ numStars = last.num0
           /\ pc = "read"

C5_Witness ==
    /\ last.op = "line" /\ Len(last.line) < MinLength
    /\ last.len0 > 0
    /\ Len(stars) = last.len0

\* the trimmed identifier, R.A. and Dec. fields of the line last read
LastFields ==
    IF callee = "CNS3"
    THEN [gj |-> CNS3Fields(last.line).gj, ra |-> CNS3Fields(last.line).ra,
          dec |-> CNS3Fields(last.line).dec]
    ELSE [gj |-> GJACFields(last.line).gj, ra |-> GJACFields(last.line).ra,
          dec |-> GJACFields(last.line).dec]

LongEnough == last.op = "line" /\ Len(last.line) >= MinLength

\* C6 as claimed: a line of sufficient length whose identifier, R.A. or Dec.
\* field is empty appends nothing and is not counted.
C6_RequiredFields ==
    (LongEnough /\ (LastFields.gj = <<>> \/ LastFields.ra = <<>> \/ LastFields.dec = <<>>))
        => (Len(stars) = last.len0 /\ numStars = last.num0)

\* C6 amended: a line of sufficient length whose R.A. or Dec. field is empty
\* appends nothing and is not counted; a line whose identifier field is empty
\* but whose R.A. and Dec. fields are not is imported and counted.
C6_PositionRequired ==
    /\ (LongEnough /\ (LastFields.ra = <<>> \/ LastFields.dec = <<>>))
          => (Len(stars) = last.len0 /\ numStars = last.num0)
    /\ (LongEnough /\ LastFields.gj = <<>> /\ LastFields.ra # <<>> /\ LastFields.dec # <<>>)
          => (Len(stars) > last.len0 /\ numStars > last.num0)

C6_Witness ==
    /\ LongEnough
    /\ LastFields.gj # <<>> /\ LastFields.ra # <<>> /\ LastFields.dec = <<>>
    /\ last.len0 > 0
    /\ Len(stars) = last.len0 /\ numStars = last.num0

\* C7: an import call whose file cannot be opened returns 0 and leaves the
\* output collection and its entries as they were.
C7_OpenFail ==
    last.op = "openfail" => (ret = 0 /\ stars = entryStars /\ heap = entryHeap)

C7_Witness ==
    /\ last.op = "openfail"
    /\ Len(stars) > 0
    /\ ret = 0 /\ stars = entryStars /\ heap = entryHeap

\* the k-th entry the line last read appended
Emitted(k) == heap[stars[last.len0 + k]]

\* C8: addGJComponentStars with base number b and components string c appends
\* one entry per character of c, in order, the k-th with the identifier of
\* "GJ " + b + c[k], when c has two characters or more, and one entry with
\* the identifier of "GJ " + b + c otherwise.
C8_Components ==
    (last.op = "line" /\ last.verdict = "ok")
        => /\ Len(stars) = last.len0 + ExpansionCount(last.comps)
           /\ \A k \in 1..ExpansionCount(last.comps) :
                 getIdentifier(Emitted(k), "GJ") =
                    fromString(GJPrefix \o last.gj \o
                               (IF Len(last.comps) < 2 THEN last.comps
                                ELSE <<last.comps[k]>>))

C8_Witness ==
    /\ last.op = "line" /\ last.verdict = "ok"
    /\ Len(last.comps) = 2
    /\ Len(stars) = last.len0 + 2
    /\ Valid(getIdentifier(Emitted(1), "GJ"))
    /\ Valid(getIdentifier(Emitted(2), "GJ"))
    /\ getIdentifier(Emitted(1), "GJ").id + 1 = getIdentifier(Emitted(2), "GJ").id

\* C9: the entries of the collection are distinct objects, and a fusion pass
\* over one entry leaves every other entry of the collection as it was.
C9_NoAlias ==
    /\ \A a, b \in 1..Len(stars) : a # b => stars[a] # stars[b]
    /\ last.op = "fuse"
          => \A j \in 1..Len(stars) : j # last.i => heap[stars[j]] = last.view0[j]

\* s and t are copies of one provisional entry: they differ in identifiers only
Siblings(s, t) == [s EXCEPT !.idents = <<>>] = [t EXCEPT !.idents = <<>>]

C9_Witness ==
    /\ last.op = "fuse" /\ last.verdict = "match"
    /\ Fused # last.before
    /\ \E j \in 1..Len(stars) :
          /\ j # last.i
          /\ Siblings(last.view0[j], last.before)
          /\ heap[stars[j]] = last.view0[j]

\* C10 as claimed: the names a fusion pass finds for an entry, matched or not,
\* are the names the table gives the identifiers the entry ends with; the
\* entry gets them when there are any and keeps its names otherwise.
C10_NamesOfFinalIdents ==
    last.op = "fuse"
        => /\ last.names = SSIdentifiersToNames(Fused.idents, nameMap)
           /\ Fused.names = IF Len(last.names) > 0 THEN last.names
                             ELSE last.before.names

\* C11 as claimed: an SSImportGJCNS3 call leaves every entry that was in the
\* collection before the call as it was then (coordinates, motion,
\* identifiers, names), while it runs and when it has returned.
C11_EarlierEntriesKept ==
    (callee = "CNS3" \/ (last.op = "return" /\ last.verdict = "CNS3"))
        => \A j \in 1..Len(entryStars) :
              /\ stars[j] = entryStars[j]
              /\ heap[stars[j]] = entryHeap[entryStars[j]]

\* C12 as claimed: after SSMakeObjectMap has returned, the lookups of
\* SSIdentifierToObject leave the map with the keys and slot values it was
\* built with, in the fusion loop of SSImportGJCNS3 and in the read loop of
\* SSImportGJAC.
C12_MapImmutable ==
    /\ pc = "fuse" => map = SSMakeObjectMap(gjACStars, "GJ")
    /\ (callee = "GJAC" /\ pc \in {"read", "aborted"})
          => map = SSMakeObjectMap(hipStars, "HIP")

\* sscanf converts the k-th group of the string: it is one of the first three
\* and no group before it failed to convert
Converted(k) == k <= Len(angle) /\ k <= 3 /\ \A j \in 1..k : angle[j].num

\* the value of the k-th group, 0 when it is not converted
Group(k) == IF Converted(k) THEN angle[k].val ELSE 0

\* some converted group of the string starts with '-'
AnyMinus == \E k \in 1..3 : Converted(k) /\ angle[k].minus

\* C13 as claimed: strtodeg returns sign * (|deg| + |min|/60 + |sec|/3600),
\* the sign negative whenever a '-' leads the degrees, minutes or seconds
\* group (values in arcseconds).
C13_SignOnAnyGroup ==
    degrees = (IF AnyMinus THEN 0 - 1 ELSE 1)
                 * (Abs(Group(1)) * 3600 + Abs(Group(2)) * 60 + Abs(Group(3)))

\* C13 amended: strtodeg returns sign * (|deg| + min/60 + sec/3600), minutes
\* and seconds taken with their own sign, the sign negative exactly when the
\* first character of the string is '-' (values in arcseconds).
C13_SignOnFirstChar ==
    degrees = (IF Len(angle) > 0 /\ angle[1].minus THEN 0 - 1 ELSE 1)
                 * (Abs(Group(1)) * 3600 + Group(2) * 60 + Group(3))

C13_Witness ==
    /\ Len(angle) = 3
    /\ angle[1].text = <<"-", "0">> /\ angle[2].text = <<"3", "0">>
    /\ angle[3].text = <<"1", "0">>
    /\ degrees = 0 - 1810

\* C14 as claimed: no line aborts an import: every line read is skipped or
\* emits its entries, no slice of it throws, and the import goes on to the
\* next line.
C14_NoAbort ==
    /\ pc # "aborted"
    /\ last.op = "line" => last.verdict \in {"ok", "short", "blank"}

\* no two identifiers of the vector carry the same catalog tag
OnePerTag(idents) ==
    \A a, b \in 1..Len(idents) : a # b => idents[a].cat # idents[b].cat

\* C15 as claimed: when SSImportGJCNS3 has returned, every entry of the
\* collection has at most one identifier per catalog tag.
C15_OnePerTag ==
    (last.op = "return" /\ last.verdict = "CNS3")
        => \A j \in 1..Len(stars) : OnePerTag(heap[stars[j]].idents)

\* C16: the identifiers of every entry of the collection are in non-decreasing
\* order of compareSSIdentifiers, whether the entry cross-matched or not.
C16_Sorted == \A j \in 1..Len(stars) : IsSorted(heap[stars[j]].idents)

C16_Witness ==
    /\ last.op = "fuse" /\ last.verdict = "match"
    /\ ~ IsSorted(UnionIdents(last.before, gjACStars[last.k]))
    /\ Len(Fused.idents) >= 4
    /\ IsSorted(Fused.idents)

\* the identifier field of the line last read by SSImportGJAC, the position
\* of its first component letter and of its slash
DualField == GJACFields(last.line).gj

DualLetter == find_first_of(DualField, {"A", "B", "C", "D"})

DualSlash == find_first_of(DualField, {"/"})

\* the line last read is an accepted line of SSImportGJAC with a dual designation
IsDual ==
    /\ last.op = "line" /\ callee = "GJAC" /\ last.verdict = "ok"
    /\ DualLetter # npos /\ DualSlash # npos /\ DualLetter < DualSlash

\* the component letters of the first designation: from the first letter up
\* to the slash
FirstLetters == trim(substr(DualField, DualLetter, DualSlash - DualLetter))

\* C17 as claimed: for a line of SSImportGJAC with a slash-separated dual
\* designation, the components string is the component letters of the first
\* designation, and one entry is emitted per such letter, with the first base
\* number and that letter, and none for the designation after the slash.
C17_FirstDesignation ==
    IsDual
        => /\ last.comps = FirstLetters
           /\ Len(stars) = last.len0 + Len(FirstLetters)
           /\ \A k \in 1..Len(FirstLetters) :
                 getIdentifier(Emitted(k), "GJ") =
                    fromString(GJPrefix \o trim(substr(DualField, 0, DualLetter))
                                        \o <<FirstLetters[k]>>)

====
